---------------------------- MODULE Spec2Model ----------------------------
(***************************************************************************)
(* Model of the sudoku generator (src/sudoku.py): the template compiler,   *)
(* the Board with its copy-producing transitions, the backtracking solver  *)
(* and the drilling search.                                                *)
(*                                                                         *)
(* A text is a sequence of one-character strings; a coordinate is the      *)
(* tuple <<i_row, i_col>>; a dict is a function on the set of its keys.    *)
(* A call that can raise is modelled by its outcome, a record              *)
(* [raised |-> "" or the error, ret |-> the value returned].               *)
(***************************************************************************)
EXTENDS Integers, Sequences, FiniteSets, Bags, TLC

VARIABLES
    template,      \* the template text handed to board_from_template
    symbols,       \* the symbol sequence handed to board_from_template
    pc,            \* the position of the program in the scenario being run
    compiled,      \* outcome of board_from_template(template, symbols)
    boards,        \* the Board objects alive in the transition scenario
    last,          \* the last call made: operation, arguments and outcome
    initial_board, \* the board given to backtrack_solutions / drill_board
    consumer,      \* who drives the solution iterator: "all" or "unique"
    backlog,       \* the deque of backtrack_solutions or of drill_board
    yielded,       \* the bag of the boards yielded so far
    answer,        \* outcome of has_unique_solution(initial_board)
    cutoff,        \* numerator of drill_board's cutoff, in CutoffDen-ths
    min_board,     \* drill_board's min_board
    popped         \* the boards drill_board popped and found uniquely solvable

vars == <<template, symbols, pc, compiled, boards, last, initial_board,
          consumer, backlog, yielded, answer, cutoff, min_board, popped>>

---------------------------------------------------------------------------
(* Program constants.                                                      *)

EMPTY_FIELD == "."

UNKNOWN_FIELD == "-"

NEWLINE == "\n"

\* str.strip() removes these; of them only the blank and the newline are in
\* the input alphabet of the model.
WHITESPACE == {" ", "\n"}

---------------------------------------------------------------------------
(* Bounds of the model.                                                    *)

\* Longest template text, in characters, of the compiler scenario.
MaxTemplateLen == 5

\* Longest symbol sequence of the compiler scenario.
MaxSymbolsLen == 2

\* Most Board objects alive in the transition scenario.
MaxBoards == 4

\* The cutoff ranges over 0/CutoffDen .. CutoffDen/CutoffDen.
CutoffDen == 4

\* Characters a template text is made of.
TemplateChars == {"A", "B", EMPTY_FIELD, UNKNOWN_FIELD, NEWLINE, " "}

\* Symbols a symbol sequence of the compiler scenario is made of.
SymbolChars == {"1", "2"}

---------------------------------------------------------------------------
(* Generic helpers: sequences, orderings, outcomes.                        *)

Range(s) == {s[i] : i \in DOMAIN s}

SeqsUpTo(S, n) == UNION {[1..k -> S] : k \in 0..n}

RECURSIVE Flatten(_)
Flatten(ss) == IF ss = <<>> THEN <<>> ELSE Head(ss) \o Flatten(Tail(ss))

\* Python's ordering of tuples (i_row, i_col).
CoordLess(a, b) == a[1] < b[1] \/ (a[1] = b[1] /\ a[2] < b[2])

\* sorted(S) for a set of coordinates.
RECURSIVE SortedCoords(_)
SortedCoords(S) ==
    IF S = {} THEN <<>>
    ELSE LET m == CHOOSE x \in S : \A y \in S \ {x} : CoordLess(x, y)
         IN  <<m>> \o SortedCoords(S \ {m})

\* sorted(S)[0] for a non-empty set of coordinates.
FirstCoord(S) == CHOOSE x \in S : \A y \in S \ {x} : CoordLess(x, y)

\* sorted(S) for a set of integers.
RECURSIVE SortedInts(_)
SortedInts(S) ==
    IF S = {} THEN <<>>
    ELSE LET m == CHOOSE x \in S : \A y \in S : x <= y
         IN  <<m>> \o SortedInts(S \ {m})

\* All the orders a shuffle can leave the elements of a set in.
Perms(S) == {p \in [1..Cardinality(S) -> S] : Range(p) = S}

Ok(v) == [raised |-> "", ret |-> v]

Raise(e, v) == [raised |-> e, ret |-> v]

---------------------------------------------------------------------------
(* Segment (src/sudoku.py:154-173).                                        *)

\* Segment._validate: no coordinate appears twice in coords.
Segment_validate(coords) ==
    \A i, j \in DOMAIN coords : i # j => coords[i] # coords[j]

\* Segment(coords): the segment is its list of coordinates.
Segment(coords) ==
    IF Segment_validate(coords) THEN Ok(coords)
    ELSE Raise("ValueError: value appears twice", <<>>)

---------------------------------------------------------------------------
(* Template compiler (src/sudoku.py:176-280).                              *)

\* template.split('\n'): the pieces between newlines, empty ones included.
RECURSIVE SplitFrom(_, _)
SplitFrom(text, cur) ==
    IF text = <<>> THEN <<cur>>
    ELSE IF Head(text) = NEWLINE THEN <<cur>> \o SplitFrom(Tail(text), <<>>)
    ELSE SplitFrom(Tail(text), Append(cur, Head(text)))

Split(text) == SplitFrom(text, <<>>)

\* s.strip(): s without its leading and trailing whitespace.
RECURSIVE LStrip(_)
LStrip(s) ==
    IF s # <<>> /\ Head(s) \in WHITESPACE THEN LStrip(Tail(s)) ELSE s

RECURSIVE RStrip(_)
RStrip(s) ==
    IF s # <<>> /\ s[Len(s)] \in WHITESPACE
    THEN RStrip(SubSeq(s, 1, Len(s) - 1)) ELSE s

Strip(s) == RStrip(LStrip(s))

\* The grid as a dict from coordinate to glyph.
GridOf(lines, height, width) ==
    [coord \in (0..(height - 1)) \X (0..(width - 1)) |->
        lines[coord[1] + 1][coord[2] + 1]]

\* template_to_grid: (height, width, grid), or the error for ragged rows.
template_to_grid(text) ==
    LET stripped == [i \in DOMAIN Split(text) |-> Strip(Split(text)[i])]
        lines    == SelectSeq(stripped, LAMBDA s : s # <<>>)
        height   == Len(lines)
        widths   == {Len(lines[i]) : i \in DOMAIN lines}
    IN  IF Cardinality(widths) # 1
        THEN Raise("ValueError: rows have different lengths",
                   [height |-> 0, width |-> 0, grid |-> <<>>])
        ELSE LET width == CHOOSE w \in widths : TRUE
             IN  Ok([height |-> height, width |-> width,
                     grid |-> GridOf(lines, height, width)])

\* iter_disjoint_indices: the maximal runs of indices (zero-based) whose
\* glyph is not EMPTY_FIELD, as sets, in the order they are yielded.
RECURSIVE DisjointFrom(_, _, _)
DisjointFrom(line, i, indices) ==
    IF i > Len(line)
    THEN (IF indices # {} THEN <<indices>> ELSE <<>>)
    ELSE IF line[i] = EMPTY_FIELD
         THEN (IF indices # {} THEN <<indices>> ELSE <<>>)
              \o DisjointFrom(line, i + 1, {})
         ELSE DisjointFrom(line, i + 1, indices \cup {i - 1})

iter_disjoint_indices(line) == DisjointFrom(line, 1, {})

\* iter_segments_for_rows: one Segment per run, of each row in turn.  A
\* run is a set of small integers, which Python iterates in increasing
\* order.
iter_segments_for_rows(height, width, grid) ==
    Flatten([r \in 1..height |->
        LET i_row == r - 1
            line  == [c \in 1..width |-> grid[<<i_row, c - 1>>]]
            runs  == iter_disjoint_indices(line)
        IN  [k \in DOMAIN runs |->
                LET idx == SortedInts(runs[k])
                IN  Segment([n \in DOMAIN idx |-> <<i_row, idx[n]>>])]])

\* iter_segments_for_cols: one Segment per run, of each column in turn.
iter_segments_for_cols(height, width, grid) ==
    Flatten([c \in 1..width |->
        LET i_col == c - 1
            line  == [r \in 1..height |-> grid[<<r - 1, i_col>>]]
            runs  == iter_disjoint_indices(line)
        IN  [k \in DOMAIN runs |->
                LET idx == SortedInts(runs[k])
                IN  Segment([n \in DOMAIN idx |-> <<idx[n], i_col>>])]])

\* itertools.product(range(height), range(width)): row-major order.
ProductOrder(height, width) ==
    SortedCoords((0..(height - 1)) \X (0..(width - 1)))

\* The glyphs of the in-play cells in the order their keys enter
\* segments_by_symbol (a dict keeps insertion order).
RECURSIVE FirstSeen(_, _, _)
FirstSeen(cells, grid, seen) ==
    IF cells = <<>> THEN seen
    ELSE LET g == grid[Head(cells)]
         IN  IF g = EMPTY_FIELD \/ g \in Range(seen)
             THEN FirstSeen(Tail(cells), grid, seen)
             ELSE FirstSeen(Tail(cells), grid, Append(seen, g))

\* iter_segments_for_symbols taking the glyphs for fill symbols: no glyph
\* makes a group.
iter_segments_for_symbols_NoGroups(height, width, grid) ==
    IF \E c \in DOMAIN grid : grid[c] = UNKNOWN_FIELD
    THEN Raise("ValueError: cannot use UNKNOWN_FIELD in the template", <<>>)
    ELSE Ok(<<>>)

\* iter_segments_for_symbols: one Segment per distinct glyph other than
\* EMPTY_FIELD; UNKNOWN_FIELD anywhere in the grid raises.  (The glyphs are
\* compared with "is"; CPython shares one object per one-character string,
\* so this is equality.)
iter_segments_for_symbols(height, width, grid) ==
    LET cells  == ProductOrder(height, width)
        glyphs == FirstSeen(cells, grid, <<>>)
    IN  IF \E i \in DOMAIN cells : grid[cells[i]] = UNKNOWN_FIELD
        THEN Raise("ValueError: cannot use UNKNOWN_FIELD in the template", <<>>)
        ELSE Ok([k \in DOMAIN glyphs |->
                    Segment(SelectSeq(cells, LAMBDA c : grid[c] = glyphs[k]))])

\* The first Segment construction that raised, if any.
SegmentsRaised(segs) ==
    IF \E i \in DOMAIN segs : segs[i].raised # ""
    THEN segs[CHOOSE i \in DOMAIN segs : segs[i].raised # ""].raised
    ELSE ""

SegmentsOf(segs) == [i \in DOMAIN segs |-> segs[i].ret]

\* flatten_and_validate_segments: the set of all coordinates, or the error
\* when two segments of the list share a coordinate.
flatten_and_validate_segments(segments) ==
    IF \E i, j \in DOMAIN segments :
          i < j /\ Range(segments[i]) \cap Range(segments[j]) # {}
    THEN Raise("ValueError: there is an intersection in segments", {})
    ELSE Ok(UNION {Range(segments[i]) : i \in DOMAIN segments})

\* validate_two_segments: "" when both lists cover the same coordinates.
validate_two_segments(segments_a, segments_b) ==
    LET a == flatten_and_validate_segments(segments_a)
        b == flatten_and_validate_segments(segments_b)
        union == a.ret \cup b.ret
        odds  == (union \ a.ret) \cup (union \ b.ret)
    IN  IF a.raised # "" THEN a.raised
        ELSE IF b.raised # "" THEN b.raised
        ELSE IF odds # {} THEN "ValueError: coordinates not shared"
        ELSE ""

\* validate_segments_length with len(seg) > len(symbols) on the symbol
\* sequence as passed in.
validate_segments_length(segments, syms) ==
    IF \E i \in DOMAIN segments : Len(segments[i]) > Len(syms)
    THEN "ValueError: segment longer than the number of symbols"
    ELSE ""

---------------------------------------------------------------------------
(* Board (src/sudoku.py:41-151).                                           *)

\* Board._get_all_coords_from_segments.
Board_get_all_coords_from_segments(segments) ==
    UNION {Range(segments[i]) : i \in DOMAIN segments}

\* Board.__init__ as board_from_template calls it: all_coords derived from
\* the segments, nothing filled, symbols turned into a set.
Board(height, width, segments, syms) ==
    [height |-> height, width |-> width, segments |-> segments,
     symbols |-> Range(syms),
     all_coords |-> Board_get_all_coords_from_segments(segments),
     filled |-> <<>>]

\* What a call that raised leaves in place of a returned Board.
NoBoard ==
    [height |-> 0, width |-> 0, segments |-> <<>>, symbols |-> {},
     all_coords |-> {}, filled |-> <<>>]

\* Board.get_area.
Board_get_area(self) == self.width * self.height

\* Board.get_filled_fields: the keys of _filled.
Board_get_filled_fields(self) == DOMAIN self.filled

\* new_filled = self._filled.copy(); new_filled[coord] = symbol
FilledWith(filled, coord, symbol) ==
    [c \in DOMAIN filled \cup {coord} |->
        IF c = coord THEN symbol ELSE filled[c]]

\* new_filled = self._filled.copy(); del new_filled[coord]
FilledWithout(filled, coord) ==
    [c \in DOMAIN filled \ {coord} |-> filled[c]]

\* _copy_and_set without its first check: a filled coordinate is overwritten.
Board_copy_and_set_Overwriting(self, coord, symbol) ==
    IF coord \notin self.all_coords
    THEN [raised |-> "ValueError: coordinate is not on the board",
          ret |-> NoBoard, self |-> self]
    ELSE IF symbol \notin self.symbols
    THEN [raised |-> "ValueError: bad symbol",
          ret |-> NoBoard, self |-> self]
    ELSE [raised |-> "",
          ret |-> [self EXCEPT !.filled = FilledWith(self.filled, coord, symbol)],
          self |-> self]

\* Board._copy_and_set: the outcome, with the Board returned (ret) and the
\* Board the method was called on as the call leaves it (self).
Board_copy_and_set(self, coord, symbol) ==
    IF coord \in DOMAIN self.filled
    THEN [raised |-> "ValueError: coord already filled",
          ret |-> NoBoard, self |-> self]
    ELSE IF coord \notin self.all_coords
    THEN [raised |-> "ValueError: coordinate is not on the board",
          ret |-> NoBoard, self |-> self]
    ELSE IF symbol \notin self.symbols
    THEN [raised |-> "ValueError: bad symbol",
          ret |-> NoBoard, self |-> self]
    ELSE [raised |-> "",
          ret |-> [self EXCEPT !.filled = FilledWith(self.filled, coord, symbol)],
          self |-> self]

\* copy_and_remove deleting from self._filled itself instead of from a copy.
Board_copy_and_remove_InPlace(self, coord) ==
    IF coord \notin DOMAIN self.filled
    THEN [raised |-> "ValueError: coord to remove not filled",
          ret |-> NoBoard, self |-> self]
    ELSE [raised |-> "",
          ret |-> [self EXCEPT !.filled = FilledWithout(self.filled, coord)],
          self |-> [self EXCEPT !.filled = FilledWithout(self.filled, coord)]]

\* copy_and_remove writing UNKNOWN_FIELD at the coordinate instead of
\* deleting the coordinate from the copy.
Board_copy_and_remove_Blanking(self, coord) ==
    IF coord \notin DOMAIN self.filled
    THEN [raised |-> "ValueError: coord to remove not filled",
          ret |-> NoBoard, self |-> self]
    ELSE [raised |-> "",
          ret |-> [self EXCEPT
                     !.filled = FilledWith(self.filled, coord, UNKNOWN_FIELD)],
          self |-> self]

\* Board.copy_and_remove: likewise.
Board_copy_and_remove(self, coord) ==
    IF coord \notin DOMAIN self.filled
    THEN [raised |-> "ValueError: coord to remove not filled",
          ret |-> NoBoard, self |-> self]
    ELSE [raised |-> "",
          ret |-> [self EXCEPT !.filled = FilledWithout(self.filled, coord)],
          self |-> self]

\* Board.is_full: as many filled fields as coordinates.
Board_is_full(self) ==
    Cardinality(self.all_coords) = Cardinality(DOMAIN self.filled)

\* Board._is_segment_valid: no symbol twice among the filled coordinates
\* of the segment.
Board_is_segment_valid(self, segment) ==
    \A i, j \in DOMAIN segment :
        (i < j /\ segment[i] \in DOMAIN self.filled
               /\ segment[j] \in DOMAIN self.filled)
        => self.filled[segment[i]] # self.filled[segment[j]]

\* is_valid returning after the first segment it looks at.
Board_is_valid_FirstSegment(self) ==
    \A k \in DOMAIN self.segments :
        k = 1 => Board_is_segment_valid(self, self.segments[k])

\* Board.is_valid: every segment is valid.
Board_is_valid(self) ==
    \A k \in DOMAIN self.segments :
        Board_is_segment_valid(self, self.segments[k])

\* Board.iter_next_boards, with next_symbols the order shuffle left the
\* symbols in: the boards with the smallest unfilled coordinate set to
\* each symbol in turn; none when every coordinate is filled.
Board_iter_next_boards(self, next_symbols) ==
    LET next_keys == self.all_coords \ Board_get_filled_fields(self)
    IN  IF next_keys = {} THEN <<>>
        ELSE LET next_field == FirstCoord(next_keys)
             IN  [k \in DOMAIN next_symbols |->
                    Board_copy_and_set(self, next_field, next_symbols[k]).ret]

---------------------------------------------------------------------------
(* board_from_template (src/sudoku.py:176-186).                            *)

board_from_template(text, syms) ==
    LET g == template_to_grid(text)
        h == g.ret.height
        w == g.ret.width
        rows == iter_segments_for_rows(h, w, g.ret.grid)
        cols == iter_segments_for_cols(h, w, g.ret.grid)
        segments_rows == SegmentsOf(rows)
        segments_cols == SegmentsOf(cols)
        grp == iter_segments_for_symbols(h, w, g.ret.grid)
        segments_symbols == SegmentsOf(grp.ret)
        all_segments == segments_rows \o segments_cols \o segments_symbols
    IN  IF g.raised # "" THEN Raise(g.raised, NoBoard)
        ELSE IF SegmentsRaised(rows) # ""
        THEN Raise(SegmentsRaised(rows), NoBoard)
        ELSE IF SegmentsRaised(cols) # ""
        THEN Raise(SegmentsRaised(cols), NoBoard)
        ELSE IF validate_two_segments(segments_rows, segments_cols) # ""
        THEN Raise(validate_two_segments(segments_rows, segments_cols), NoBoard)
        ELSE IF grp.raised # "" THEN Raise(grp.raised, NoBoard)
        ELSE IF SegmentsRaised(grp.ret) # ""
        THEN Raise(SegmentsRaised(grp.ret), NoBoard)
        ELSE IF validate_two_segments(segments_symbols, segments_rows) # ""
        THEN Raise(validate_two_segments(segments_symbols, segments_rows), NoBoard)
        ELSE IF validate_two_segments(segments_symbols, segments_cols) # ""
        THEN Raise(validate_two_segments(segments_symbols, segments_cols), NoBoard)
        ELSE IF validate_segments_length(all_segments, syms) # ""
        THEN Raise(validate_segments_length(all_segments, syms), NoBoard)
        ELSE Ok(Board(h, w, all_segments, syms))

---------------------------------------------------------------------------
(* Values the variables a scenario does not use are left at.               *)

NoCall == [op |-> "none"]

Idle ==
    /\ boards = <<>>
    /\ last = NoCall
    /\ initial_board = NoBoard
    /\ consumer = "none"
    /\ backlog = <<>>
    /\ yielded = EmptyBag
    /\ answer = "none"
    /\ cutoff = 0
    /\ min_board = NoBoard
    /\ popped = {}

---------------------------------------------------------------------------
(* Compiler scenario: board_from_template on every template text of at    *)
(* most MaxTemplateLen characters and every symbol sequence of at most    *)
(* MaxSymbolsLen symbols.                                                 *)

InitTemplate ==
    /\ template \in SeqsUpTo(TemplateChars, MaxTemplateLen)
    /\ symbols \in SeqsUpTo(SymbolChars, MaxSymbolsLen)
    /\ pc = "start"
    /\ compiled = Raise("", NoBoard)
    /\ Idle

Compile ==
    /\ pc = "start"
    /\ compiled' = board_from_template(template, symbols)
    /\ pc' = "compiled"
    /\ UNCHANGED <<template, symbols, boards, last, initial_board, consumer,
                   backlog, yielded, answer, cutoff, min_board, popped>>

NextTemplate == Compile

SpecTemplate == InitTemplate /\ [][NextTemplate]_vars

---------------------------------------------------------------------------
(* Templates and symbol sequences of the scenarios below.                  *)

\* "AB / AB": two rows, two columns, the glyph groups A and B.
TemplateSquare == <<"A", "B", NEWLINE, "A", "B">>

\* "AB / BA": the glyph groups are the two diagonals.
TemplateDiagonal == <<"A", "B", NEWLINE, "B", "A">>

\* "AB / .A": the cell (1, 0) is not in play.
TemplateCorner == <<"A", "B", NEWLINE, EMPTY_FIELD, "A">>

\* "ABC": a single row.
TemplateRow == <<"A", "B", "C">>

\* A symbol no alphabet of the scenarios holds.
ForeignSymbol == "x"

---------------------------------------------------------------------------
(* Transition scenario: _copy_and_set and copy_and_remove called, with     *)
(* any arguments, on the Board the previous call returned, as the search   *)
(* engines do.  boards[i].obj is the i-th Board object made and            *)
(* boards[i].by the call that returned it.                                 *)

BoardInputs ==
    { <<TemplateCorner, <<"1", "2">>>>, <<TemplateSquare, <<"1", "2">>>> }

InitBoard ==
    /\ \E in \in BoardInputs : template = in[1] /\ symbols = in[2]
    /\ pc = "calls"
    /\ compiled = board_from_template(template, symbols)
    /\ boards = <<[obj |-> compiled.ret, by |-> NoCall]>>
    /\ last = NoCall
    /\ initial_board = NoBoard
    /\ consumer = "none"
    /\ backlog = <<>>
    /\ yielded = EmptyBag
    /\ answer = "none"
    /\ cutoff = 0
    /\ min_board = NoBoard
    /\ popped = {}

\* Coordinates a caller may pass: those of the bounding box.
CallCoords(b) == (0..(b.height - 1)) \X (0..(b.width - 1))

\* The object store after a call on boards[i] with outcome r.
StoreAfter(i, r, call) ==
    LET kept == [boards EXCEPT ![i].obj = r.self]
    IN  IF r.raised = "" THEN Append(kept, [obj |-> r.ret, by |-> call])
        ELSE kept

CallCopyAndSet(i, coord, symbol) ==
    LET r == Board_copy_and_set(boards[i].obj, coord, symbol)
        call == [op |-> "_copy_and_set", self |-> i, coord |-> coord,
                 symbol |-> symbol, raised |-> r.raised, before |-> boards]
    IN  /\ pc = "calls"
        /\ r.raised # "" \/ Len(boards) < MaxBoards
        /\ boards' = StoreAfter(i, r, call)
        /\ last' = call
        /\ UNCHANGED <<template, symbols, pc, compiled, initial_board,
                       consumer, backlog, yielded, answer, cutoff,
                       min_board, popped>>

CallCopyAndRemove(i, coord) ==
    LET r == Board_copy_and_remove(boards[i].obj, coord)
        call == [op |-> "copy_and_remove", self |-> i, coord |-> coord,
                 symbol |-> "", raised |-> r.raised, before |-> boards]
    IN  /\ pc = "calls"
        /\ r.raised # "" \/ Len(boards) < MaxBoards
        /\ boards' = StoreAfter(i, r, call)
        /\ last' = call
        /\ UNCHANGED <<template, symbols, pc, compiled, initial_board,
                       consumer, backlog, yielded, answer, cutoff,
                       min_board, popped>>

NextBoard ==
    \E i \in {Len(boards)} :
        \E coord \in CallCoords(boards[i].obj) :
            \/ \E symbol \in boards[i].obj.symbols \cup {ForeignSymbol} :
                    CallCopyAndSet(i, coord, symbol)
            \/ CallCopyAndRemove(i, coord)

SpecBoard == InitBoard /\ [][NextBoard]_vars

\* The Board a call was made on, as it was before the call.
ReceiverBefore(call) == call.before[call.self].obj

\* The call misuses the transition it makes.
IsMisuse(call) ==
    \/ /\ call.op = "_copy_and_set"
       /\ \/ call.coord \in DOMAIN ReceiverBefore(call).filled
          \/ call.coord \notin ReceiverBefore(call).all_coords
          \/ call.symbol \notin ReceiverBefore(call).symbols
    \/ /\ call.op = "copy_and_remove"
       /\ call.coord \notin DOMAIN ReceiverBefore(call).filled

\* C6: a call that fills a filled coordinate, fills a coordinate that is
\* not in play, fills with a symbol outside the alphabet, or removes a
\* coordinate that is not filled, raises, returns no Board (the store holds
\* the Boards it held) and leaves the filled mapping of the Board it was
\* called on as it was.
C6_MisuseRaises ==
    (last.op # "none" /\ IsMisuse(last)) =>
        /\ last.raised # ""
        /\ Len(boards) = Len(last.before)
        /\ boards[last.self].obj.filled = ReceiverBefore(last).filled

\* C6 witness: a filled coordinate was filled again, and the call raised.
C6_Witness ==
    /\ last.op = "_copy_and_set"
    /\ last.coord \in DOMAIN ReceiverBefore(last).filled
    /\ last.symbol \in ReceiverBefore(last).symbols
    /\ last.raised # ""

\* boards[k] was returned by _copy_and_set(c, s) called on boards[k-1],
\* which was returned by copy_and_remove(c) called on boards[k-2], which
\* held s at c.
IsRoundTrip(k) ==
    /\ k >= 3
    /\ boards[k].by.op = "_copy_and_set"
    /\ boards[k].by.self = k - 1
    /\ boards[k - 1].by.op = "copy_and_remove"
    /\ boards[k - 1].by.self = k - 2
    /\ boards[k].by.coord = boards[k - 1].by.coord
    /\ boards[k].by.symbol =
          ReceiverBefore(boards[k - 1].by).filled[boards[k].by.coord]

\* C7: copy_and_remove(c) on a Board holding s at c, then
\* _copy_and_set(c, s) on the Board returned, returns a Board whose filled
\* mapping is that of the first Board, and neither call changes the filled
\* mapping of the Board it was called on.
C7_RemoveThenSet ==
    \A k \in DOMAIN boards :
        IsRoundTrip(k) =>
            /\ boards[k].obj.filled = ReceiverBefore(boards[k - 1].by).filled
            /\ boards[k - 2].obj.filled = ReceiverBefore(boards[k - 1].by).filled
            /\ boards[k - 1].obj.filled = ReceiverBefore(boards[k].by).filled

\* C7 witness: a removal followed by the fill that undoes it.
C7_Witness == \E k \in DOMAIN boards : IsRoundTrip(k)

\* C8: when board_from_template returns a Board, no segment of it has
\* more coordinates than the Board's set of legal symbols has elements (so
\* a template with a segment larger than the alphabet fails construction).
C8_SegmentsFitSymbols ==
    (pc = "compiled" /\ compiled.raised = "") =>
        \A k \in DOMAIN compiled.ret.segments :
            Len(compiled.ret.segments[k]) <= Cardinality(compiled.ret.symbols)

---------------------------------------------------------------------------
(* Solver scenario: a Board built by board_from_template, any sequence of  *)
(* single-cell fills, then backtrack_solutions consumed either to its end  *)
(* ("all") or by has_unique_solution ("unique").                           *)

SolveInputs ==
    { <<TemplateSquare, <<"1", "2">>>>,
      <<TemplateDiagonal, <<"1", "2">>>>,
      <<TemplateCorner, <<"1", "2", "3">>>>,
      <<TemplateRow, <<"1", "2", "3">>>>,
      <<TemplateSquare, <<"1", "1">>>> }

InitSolve ==
    /\ \E in \in SolveInputs : template = in[1] /\ symbols = in[2]
    /\ pc = "fill"
    /\ compiled = board_from_template(template, symbols)
    /\ initial_board = compiled.ret
    /\ boards = <<>>
    /\ last = NoCall
    /\ consumer = "none"
    /\ backlog = <<>>
    /\ yielded = EmptyBag
    /\ answer = "none"
    /\ cutoff = 0
    /\ min_board = NoBoard
    /\ popped = {}

\* One single-cell fill of the board that will be solved.
Fill(coord, symbol) ==
    LET r == Board_copy_and_set(initial_board, coord, symbol)
    IN  /\ pc = "fill"
        /\ r.raised = ""
        /\ initial_board' = r.ret
        /\ UNCHANGED <<template, symbols, pc, compiled, boards, last,
                       consumer, backlog, yielded, answer, cutoff,
                       min_board, popped>>

\* backtrack_solutions(initial_board) is called: backlog = deque([board]).
StartSolve(c) ==
    /\ pc = "fill"
    /\ pc' = "solve"
    /\ consumer' = c
    /\ backlog' = <<initial_board>>
    /\ UNCHANGED <<template, symbols, compiled, boards, last, initial_board,
                   yielded, answer, cutoff, min_board, popped>>

\* backlog.pop(): the rightmost element, and the deque without it.
Top(q) == q[Len(q)]

Pop(q) == SubSeq(q, 1, Len(q) - 1)

\* One turn of the loop on an invalid board: it is dropped.
SolveDiscard ==
    /\ pc = "solve"
    /\ backlog # <<>>
    /\ ~Board_is_valid(Top(backlog))
    /\ backlog' = Pop(backlog)
    /\ UNCHANGED <<template, symbols, pc, compiled, boards, last,
                   initial_board, consumer, yielded, answer, cutoff,
                   min_board, popped>>

\* One turn of the loop on a valid full board: it is yielded, and the
\* iterator, when resumed, extends the backlog with its next boards.  The
\* second board yielded to has_unique_solution makes it return False.
SolveYield ==
    /\ pc = "solve"
    /\ backlog # <<>>
    /\ Board_is_valid(Top(backlog))
    /\ Board_is_full(Top(backlog))
    /\ yielded' = yielded (+) SetToBag({Top(backlog)})
    /\ backlog' = Pop(backlog) \o Board_iter_next_boards(Top(backlog), <<>>)
    /\ IF consumer = "unique" /\ BagCardinality(yielded) = 1
       THEN pc' = "done" /\ answer' = "False"
       ELSE UNCHANGED <<pc, answer>>
    /\ UNCHANGED <<template, symbols, compiled, boards, last, initial_board,
                   consumer, cutoff, min_board, popped>>

\* One turn of the loop on a valid board that is not full: its next
\* boards, in the order shuffle left the symbols in, go on the backlog.
SolveExpand ==
    /\ pc = "solve"
    /\ backlog # <<>>
    /\ Board_is_valid(Top(backlog))
    /\ ~Board_is_full(Top(backlog))
    /\ \E next_symbols \in Perms(Top(backlog).symbols) :
          backlog' = Pop(backlog)
                     \o Board_iter_next_boards(Top(backlog), next_symbols)
    /\ UNCHANGED <<template, symbols, pc, compiled, boards, last,
                   initial_board, consumer, yielded, answer, cutoff,
                   min_board, popped>>

\* The backlog is empty: the iterator is exhausted.  has_unique_solution
\* returns True when that ends its second next(), and lets StopIteration
\* escape when it ends its first, which is outside the try.
SolveExhausted ==
    /\ pc = "solve"
    /\ backlog = <<>>
    /\ pc' = "done"
    /\ answer' = IF consumer = "all" THEN "none"
                 ELSE IF BagCardinality(yielded) = 0 THEN "StopIteration"
                 ELSE "True"
    /\ UNCHANGED <<template, symbols, compiled, boards, last, initial_board,
                   consumer, backlog, yielded, cutoff, min_board, popped>>

NextSolve ==
    \/ \E coord \in initial_board.all_coords :
          \E symbol \in initial_board.symbols : Fill(coord, symbol)
    \/ \E c \in {"all", "unique"} : StartSolve(c)
    \/ SolveDiscard
    \/ SolveYield
    \/ SolveExpand
    \/ SolveExhausted

\* The loop of backtrack_solutions runs for as long as its consumer asks
\* for a next element.
SpecSolve == InitSolve /\ [][NextSolve]_vars /\ WF_vars(NextSolve)

\* A board is complete: every in-play coordinate holds a legal symbol and
\* no segment holds a symbol twice.
IsComplete(b) ==
    /\ DOMAIN b.filled = b.all_coords
    /\ \A c \in b.all_coords : b.filled[c] \in b.symbols
    /\ \A k \in DOMAIN b.segments :
          \A i, j \in DOMAIN b.segments[k] :
              i # j => b.filled[b.segments[k][i]] # b.filled[b.segments[k][j]]

\* The complete boards that agree with b on every coordinate b has filled.
Completions(b) ==
    { [b EXCEPT !.filled = f] : f \in
        { g \in [b.all_coords -> b.symbols] :
            /\ \A c \in DOMAIN b.filled : g[c] = b.filled[c]
            /\ IsComplete([b EXCEPT !.filled = g]) } }

\* What backtrack_solutions has yielded is right so far: only completions
\* of the initial board, none of them twice; and all of them once the
\* iterator is exhausted.
SolutionsRight ==
    consumer = "all" =>
        /\ \A b \in BagToSet(yielded) :
              b \in Completions(initial_board) /\ CopiesIn(b, yielded) = 1
        /\ pc = "done" => BagToSet(yielded) = Completions(initial_board)

\* C1: for a board built by board_from_template and any sequence of
\* single-cell fills, backtrack_solutions yields finitely many boards (the
\* iterator, consumed, gets exhausted), each a full valid board agreeing
\* with the initial board on its filled coordinates, each such board
\* exactly once.
C1_SolverEnumeratesCompletions ==
    /\ []SolutionsRight
    /\ (pc = "solve" /\ consumer = "all") ~> (pc = "done")

\* C1 witness: a partly filled board was solved and has a completion.
C1_Witness ==
    /\ pc = "done"
    /\ consumer = "all"
    /\ DOMAIN initial_board.filled # {}
    /\ ~Board_is_full(initial_board)
    /\ BagCardinality(yielded) >= 1

\* C2: has_unique_solution returns True exactly when the board has one
\* solution, and returns False when it has none or several.
C2_UniqueIffOneSolution ==
    (pc = "done" /\ consumer = "unique") =>
        IF Cardinality(Completions(initial_board)) = 1
        THEN answer = "True"
        ELSE answer = "False"

\* The template "AB / AB" with the symbols 1, 2.
IsScenarioA == template = TemplateSquare /\ symbols = <<"1", "2">>

\* The three segmentations of the template, as board_from_template
\* derives them.
GridOfTemplate == template_to_grid(template).ret

RowSegments ==
    SegmentsOf(iter_segments_for_rows(GridOfTemplate.height,
                                      GridOfTemplate.width, GridOfTemplate.grid))

ColSegments ==
    SegmentsOf(iter_segments_for_cols(GridOfTemplate.height,
                                      GridOfTemplate.width, GridOfTemplate.grid))

\* Scenario A but for the number of segments: 4 coordinates, 2 row and 2
\* column segments, every segment of length 2, 2 completions of the empty
\* board.
ScenarioACommon ==
    /\ compiled.raised = ""
    /\ Cardinality(compiled.ret.all_coords) = 4
    /\ Len(RowSegments) = 2
    /\ Len(ColSegments) = 2
    /\ \A k \in DOMAIN compiled.ret.segments : Len(compiled.ret.segments[k]) = 2
    /\ (pc = "done" /\ consumer = "all" /\ initial_board.filled = <<>>)
          => BagCardinality(yielded) = 2

\* C5 as stated: "AB / AB" with symbols 1, 2 compiles to 4 coordinates and
\* exactly 4 segments (2 rows, 2 columns, no group segments), each of
\* length 2, and the empty board has exactly 2 completions.
C5_ScenarioA_FourSegments ==
    IsScenarioA =>
        /\ ScenarioACommon
        /\ Len(compiled.ret.segments) = 4
        /\ compiled.ret.segments = RowSegments \o ColSegments

\* C5 amended: "AB / AB" with symbols 1, 2 compiles to 4 coordinates and
\* exactly 6 segments (2 rows, 2 columns and the 2 groups of the glyphs A
\* and B), each of length 2, and the empty board has exactly 2 completions.
C5_ScenarioA_SixSegments ==
    IsScenarioA =>
        /\ ScenarioACommon
        /\ Len(compiled.ret.segments) = 6
        /\ SubSeq(compiled.ret.segments, 1, 4) = RowSegments \o ColSegments
        /\ SubSeq(compiled.ret.segments, 5, 6) =
              << <<<<0, 0>>, <<1, 0>>>>, <<<<0, 1>>, <<1, 1>>>> >>

\* C5 witness: the empty board of scenario A was solved to the end.
C5_Witness ==
    /\ IsScenarioA
    /\ pc = "done"
    /\ consumer = "all"
    /\ initial_board.filled = <<>>
    /\ BagCardinality(yielded) = 2

---------------------------------------------------------------------------
(* has_unique_solution as drill_board calls it (src/sudoku.py:307-318).    *)

\* One of the orders shuffle can leave a set in.  What the solver yields
\* in total does not depend on the order, only the sequence it comes in.
RECURSIVE SomeOrder(_)
SomeOrder(S) ==
    IF S = {} THEN <<>>
    ELSE LET x == CHOOSE y \in S : TRUE
         IN  <<x>> \o SomeOrder(S \ {x})

\* The number of boards backtrack_solutions yields from the given backlog
\* to a consumer that stops asking after `limit` of them.
RECURSIVE YieldCount(_, _, _)
YieldCount(q, found, limit) ==
    IF found = limit \/ q = <<>> THEN found
    ELSE IF ~Board_is_valid(Top(q)) THEN YieldCount(Pop(q), found, limit)
    ELSE YieldCount(
            Pop(q) \o Board_iter_next_boards(Top(q), SomeOrder(Top(q).symbols)),
            IF Board_is_full(Top(q)) THEN found + 1 ELSE found,
            limit)

\* has_unique_solution taking any solution for a unique one: it never asks
\* for the second.
has_unique_solution_FirstOnly(board) ==
    IF YieldCount(<<board>>, 0, 1) = 0 THEN "StopIteration" ELSE "True"

\* has_unique_solution: two next() on the iterator; StopIteration escapes
\* from the first, the second answers.
has_unique_solution(board) ==
    LET n == YieldCount(<<board>>, 0, 2)
    IN  IF n = 0 THEN "StopIteration"
        ELSE IF n = 1 THEN "True"
        ELSE "False"

---------------------------------------------------------------------------
(* Drilling scenario: drill_board on a solved board, with a cutoff of      *)
(* cutoff / CutoffDen.                                                     *)

\* "A": a single cell.
TemplateCell == <<"A">>

DrillInputs ==
    { <<TemplateSquare, <<"1", "2">>>>,
      <<TemplateCorner, <<"1", "2", "3">>>>,
      <<TemplateRow, <<"1", "2", "3">>>>,
      <<TemplateCell, <<"1", "2">>>>,
      <<TemplateCell, <<"1">>>> }

\* The solved boards of the inputs, and every board that removing fields
\* from one of them gives.
SolvedBoards ==
    UNION {Completions(board_from_template(in[1], in[2]).ret) : in \in DrillInputs}

DrilledBoards ==
    UNION { { [b EXCEPT !.filled = [c \in D |-> b.filled[c]]] :
                D \in SUBSET b.all_coords } : b \in SolvedBoards }

\* has_unique_solution(board) for each of these boards, worked out once.
IsUnique == [b \in DrilledBoards |-> has_unique_solution(b)]

\* len(board.get_filled_fields())
FilledCount(b) == Cardinality(Board_get_filled_fields(b))

\* fillness <= cutoff, with fillness = float(len(filled)) / get_area().
\* Both sides are quotients of small integers, which the float division
\* orders as the rationals are ordered.
AtOrBelowCutoff(b, k) == FilledCount(b) * CutoffDen <= k * Board_get_area(b)

\* min_board after the popped board was compared with it, keeping the
\* board with more fields filled.
NewMinBoard_Largest(board, min) ==
    IF FilledCount(board) > FilledCount(min) THEN board ELSE min

\* min_board after the popped board was compared with it.
NewMinBoard(board, min) ==
    IF FilledCount(board) < FilledCount(min) THEN board ELSE min

\* The boards pushed for a popped board, with fields the order shuffle
\* left its filled fields in.
DrillChildren(board, fields) ==
    [k \in DOMAIN fields |-> Board_copy_and_remove(board, fields[k]).ret]

InitDrill ==
    /\ \E in \in DrillInputs : template = in[1] /\ symbols = in[2]
    /\ compiled = board_from_template(template, symbols)
    /\ initial_board \in Completions(compiled.ret)
    /\ cutoff \in 0..CutoffDen
    /\ pc = "drill"
    /\ backlog = <<initial_board>>
    /\ min_board = initial_board
    /\ popped = {}
    /\ last = NoCall
    /\ boards = <<>>
    /\ consumer = "none"
    /\ yielded = EmptyBag
    /\ answer = "none"

\* The turn of the loop, as recorded in last.
Turn(op, board, children) ==
    [op |-> op, board |-> board, children |-> children, before |-> backlog,
     min_before |-> min_board]

\* A turn on a board without a unique solution: it is dropped.  (Were the
\* board without any solution, StopIteration would end drill_board.)
DrillDiscard ==
    /\ pc = "drill"
    /\ backlog # <<>>
    /\ LET unique == IsUnique[Top(backlog)]
       IN  /\ unique # "True"
           /\ pc' = IF unique = "False" THEN "drill" ELSE "raised"
    /\ backlog' = Pop(backlog)
    /\ last' = Turn("discard", Top(backlog), <<>>)
    /\ UNCHANGED <<template, symbols, compiled, boards, initial_board,
                   consumer, yielded, answer, cutoff, min_board, popped>>

\* A turn on a uniquely solvable board with fewer fields than min_board and
\* its fillness at or below the cutoff: the loop is left.
DrillCutoff ==
    /\ pc = "drill"
    /\ backlog # <<>>
    /\ IsUnique[Top(backlog)] = "True"
    /\ FilledCount(Top(backlog)) < FilledCount(min_board)
    /\ AtOrBelowCutoff(Top(backlog), cutoff)
    /\ backlog' = Pop(backlog)
    /\ min_board' = NewMinBoard(Top(backlog), min_board)
    /\ popped' = popped \cup {Top(backlog)}
    /\ pc' = "done"
    /\ last' = Turn("cutoff", Top(backlog), <<>>)
    /\ UNCHANGED <<template, symbols, compiled, boards, initial_board,
                   consumer, yielded, answer, cutoff>>

\* Any other turn on a uniquely solvable board: one child per filled
\* field goes on the backlog, in the order shuffle left the fields in.
DrillExpand ==
    /\ pc = "drill"
    /\ backlog # <<>>
    /\ IsUnique[Top(backlog)] = "True"
    /\ ~(/\ FilledCount(Top(backlog)) < FilledCount(min_board)
         /\ AtOrBelowCutoff(Top(backlog), cutoff))
    /\ \E fields \in Perms(Board_get_filled_fields(Top(backlog))) :
          /\ backlog' = Pop(backlog) \o DrillChildren(Top(backlog), fields)
          /\ last' = Turn("expand", Top(backlog),
                          DrillChildren(Top(backlog), fields))
    /\ min_board' = NewMinBoard(Top(backlog), min_board)
    /\ popped' = popped \cup {Top(backlog)}
    /\ UNCHANGED <<template, symbols, pc, compiled, boards, initial_board,
                   consumer, yielded, answer, cutoff>>

\* The backlog is empty: min_board is returned.
DrillExhausted ==
    /\ pc = "drill"
    /\ backlog = <<>>
    /\ pc' = "done"
    /\ last' = Turn("exhausted", NoBoard, <<>>)
    /\ UNCHANGED <<template, symbols, compiled, boards, initial_board,
                   consumer, backlog, yielded, answer, cutoff, min_board,
                   popped>>

NextDrill ==
    \/ DrillDiscard
    \/ DrillCutoff
    \/ DrillExpand
    \/ DrillExhausted

\* drill_board runs its loop without waiting for anything.
SpecDrill == InitDrill /\ [][NextDrill]_vars /\ WF_vars(NextDrill)

\* The answer has_unique_solution gives by stepping the iterator, under
\* any shuffle, is the one has_unique_solution(board) works out.
UniqueAnswerAgrees ==
    (pc = "done" /\ consumer = "unique") =>
        answer = has_unique_solution(initial_board)

\* C3: the board drill_board returns for a solved board has at most as many
\* filled cells as the board given and has exactly one solution, however
\* the search ended.
C3_DrillKeepsUniqueSolution ==
    pc = "done" =>
        /\ FilledCount(min_board) <= FilledCount(initial_board)
        /\ Cardinality(Completions(min_board)) = 1
        /\ has_unique_solution(min_board) = "True"

\* C3 witness: the search stopped at a cutoff within (0, 1] on a board
\* with fewer filled cells.
C3_Witness ==
    /\ pc = "done"
    /\ last.op = "cutoff"
    /\ cutoff \in 1..CutoffDen
    /\ FilledCount(min_board) < FilledCount(initial_board)

\* C4: given a solved board whose fill ratio (filled cells over in-play
\* cells) is at or below the cutoff, as with the cutoff 1.0, drill_board
\* returns the board unchanged: the filled mapping returned is the input's.
C4_SolvedBoardAtCutoffUnchanged ==
    (/\ pc = "done"
     /\ FilledCount(initial_board) * CutoffDen
           <= cutoff * Cardinality(initial_board.all_coords))
    => min_board.filled = initial_board.filled

\* C9: on a newly recorded minimal board the search stops exactly when
\* filled cells / in-play cells <= cutoff.
C9_RatioOverInPlayCells ==
    (/\ last.op \in {"cutoff", "expand"}
     /\ FilledCount(last.board) < FilledCount(last.min_before))
    => (last.op = "cutoff" <=>
            FilledCount(last.board) * CutoffDen
               <= cutoff * Cardinality(last.board.all_coords))

\* Every turn of drill_board's loop did what it should: a board without a
\* unique solution was dropped and nothing pushed; a board expanded had a
\* unique solution and each child pushed has one filled cell fewer; the
\* search ends at the cutoff or on an empty backlog, never on an error;
\* and on an empty backlog min_board is a uniquely solvable board that was
\* popped with the fewest filled cells of them all, the board given when it
\* is the only one.
DrillTurnsRight ==
    /\ pc \in {"drill", "done"}
    /\ last.op = "discard" =>
          /\ Cardinality(Completions(last.board)) # 1
          /\ backlog = Pop(last.before)
          /\ min_board = last.min_before
    /\ last.op \in {"expand", "cutoff"} =>
          Cardinality(Completions(last.board)) = 1
    /\ last.op = "expand" =>
          /\ backlog = Pop(last.before) \o last.children
          /\ Len(last.children) = FilledCount(last.board)
          /\ \A k \in DOMAIN last.children :
                FilledCount(last.children[k]) = FilledCount(last.board) - 1
    /\ pc = "done" => last.op \in {"cutoff", "exhausted"}
    /\ (pc = "done" /\ last.op = "exhausted") =>
          /\ min_board \in popped
          /\ \A b \in popped : FilledCount(min_board) <= FilledCount(b)
          /\ popped = {initial_board} => min_board = initial_board

IsRestriction(b, a) ==
    /\ DOMAIN b.filled \subseteq DOMAIN a.filled
    /\ \A c \in DOMAIN b.filled : b.filled[c] = a.filled[c]

\* Board b has the height, width, segments, symbols and in-play
\* coordinates of board a.
SameFrame(b, a) ==
    /\ b.height = a.height
    /\ b.width = a.width
    /\ b.segments = a.segments
    /\ b.symbols = a.symbols
    /\ b.all_coords = a.all_coords

\* C11: drilling only removes cells.  Every board in drill_board's backlog,
\* min_board all along and so the board returned, has a filled mapping that
\* is a restriction of the filled mapping of the solved board given, and
\* its height, width, segments, symbols and in-play coordinates; the solved
\* board given is the one solution of the board returned.
C11_DrillOnlyRemovesCells ==
    /\ \A k \in DOMAIN backlog :
          /\ IsRestriction(backlog[k], initial_board)
          /\ SameFrame(backlog[k], initial_board)
    /\ IsRestriction(min_board, initial_board)
    /\ SameFrame(min_board, initial_board)
    /\ pc = "done" => Completions(min_board) = {initial_board}

\* C11 witness: drill_board returned a board with some cells removed and
\* some kept, while boards with cells removed were still on the backlog.
C11_Witness ==
    /\ pc = "done"
    /\ DOMAIN min_board.filled # {}
    /\ DOMAIN min_board.filled # DOMAIN initial_board.filled
    /\ \E k \in DOMAIN backlog :
          DOMAIN backlog[k].filled # DOMAIN initial_board.filled

====
